---- MODULE Spec2Model ----
(***************************************************************************)
(* The Map widget of widget/map.go: the zoom and pan button callbacks of   *)
(* CreateRenderer and the raster callback Map.draw, which enumerates the   *)
(* visible OpenStreetMap tiles, fetches each and composites it into the    *)
(* widget's pixel buffer.                                                  *)
(***************************************************************************)
EXTENDS Integers, Sequences, FiniteSets, TLC

VARIABLES zoom, x, y, w, h, pixels, frame, panicked, start, ops

vars == <<zoom, x, y, w, h, pixels, frame, panicked, start, ops>>

(* ---------------------------------------------------------------- bounds *)

\* Pan and zoom-in steps of Spec keep |x| and |y| within this many tiles.
MaxCoord == 2

\* The canvas scales draw is called with are 0..MaxScale.
MaxScale == 2

\* SpecZoom starts from centres within this many tiles of 0 ...
MaxStart == 4

\* ... and runs this many zoom steps from there.
MaxZoomSteps == 2

(* ------------------------------------------------------------- constants *)

tileSize == 256

MaxZoom == 19

\* CanvasForObject returned nil: the widget is on no canvas.
NoCanvas == -1

\* The (w, h) sizes the toolkit calls draw with: empty, smaller than two
\* tiles with an odd width, exactly two tiles, larger with an odd width.
DrawSizes == {<<0, 0>>, <<301, 200>>, <<512, 512>>, <<701, 620>>}

\* What CanvasForObject gives draw: no canvas, or one whose scale truncates
\* to 0..MaxScale.
Canvases == {NoCanvas} \cup (0..MaxScale)

\* The state of the tile server during one draw call: the parities of x + y
\* of the tiles whose fetch fails ({} all succeed, {0, 1} all fail).
Networks == SUBSET {0, 1}

(* ----------------------------------------------------------- arithmetic *)

\* Go's integer division, which truncates toward zero (b > 0).
GoDiv(a, b) == IF a >= 0 THEN a \div b ELSE -((-a) \div b)

\* int(math.Ceil(float64(a) / float64(b))) for b > 0: exact for these sizes.
CeilDiv(a, b) == -((-a) \div b)

Abs(a) == IF a < 0 THEN -a ELSE a

(* ---------------------------------------------------------------- state *)

\* image.NRGBA pointers: addr 0 is nil, a buffer has addr 1 or 2.
NilPixels == [addr |-> 0, w |-> 0, h |-> 0]

\* image.NewNRGBA(image.Rect(0, 0, nw, nh)): a buffer distinct from the one
\* it replaces (two addresses suffice to tell consecutive buffers apart).
NewNRGBA(old, nw, nh) == [addr |-> IF old.addr = 1 THEN 2 ELSE 1, w |-> nw, h |-> nh]

\* What the latest draw call did; no frame before the first call and after
\* a Refresh.
NoFrame == [valid |-> FALSE, w |-> 0, h |-> 0, tileSize |-> 0,
            fetched |-> <<>>, errors |-> <<>>, drawn |-> <<>>]

Init ==
    /\ zoom = 0
    /\ x = 0
    /\ y = 0
    /\ w = 0
    /\ h = 0
    /\ pixels = NilPixels
    /\ frame = NoFrame
    /\ panicked = FALSE
    /\ start = [zoom |-> 0, x |-> 0, y |-> 0]
    /\ ops = <<>>

\* m.Refresh(): the widget is repainted, the frame on screen is outdated.
Refresh == frame' = NoFrame

(* ------------------------------------------------------- zoom and pan *)

\* The zoom-in callback with the test zoom > 19 for zoom >= 19.
ZoomInHandler_NoClamp ==
    IF zoom > MaxZoom
    THEN UNCHANGED <<zoom, x, y, frame>>
    ELSE /\ zoom' = zoom + 1
         /\ x' = x * 2
         /\ y' = y * 2
         /\ Refresh

\* The zoom-in callback without m.y *= 2.
ZoomInHandler_NoDouble ==
    IF zoom >= MaxZoom
    THEN UNCHANGED <<zoom, x, y, frame>>
    ELSE /\ zoom' = zoom + 1
         /\ x' = x * 2
         /\ y' = y
         /\ Refresh

\* The callback of the zoom-in button.
ZoomInHandler ==
    IF zoom >= MaxZoom
    THEN UNCHANGED <<zoom, x, y, frame>>
    ELSE /\ zoom' = zoom + 1
         /\ x' = x * 2
         /\ y' = y * 2
         /\ Refresh

\* The zoom-out callback without m.x /= 2.
ZoomOutHandler_NoHalve ==
    IF zoom <= 0
    THEN UNCHANGED <<zoom, x, y, frame>>
    ELSE /\ zoom' = zoom - 1
         /\ x' = x
         /\ y' = GoDiv(y, 2)
         /\ Refresh

\* The callback of the zoom-out button.
ZoomOutHandler ==
    IF zoom <= 0
    THEN UNCHANGED <<zoom, x, y, frame>>
    ELSE /\ zoom' = zoom - 1
         /\ x' = GoDiv(x, 2)
         /\ y' = GoDiv(y, 2)
         /\ Refresh

\* The callbacks of the four pan buttons.
MoveUpHandler == y' = y - 1 /\ Refresh /\ UNCHANGED <<zoom, x>>

NavigateBackHandler == x' = x - 1 /\ Refresh /\ UNCHANGED <<zoom, y>>

NavigateNextHandler == x' = x + 1 /\ Refresh /\ UNCHANGED <<zoom, y>>

MoveDownHandler == y' = y + 1 /\ Refresh /\ UNCHANGED <<zoom, x>>

\* The bound of Spec on the centre.
InBounds == Abs(x) <= MaxCoord /\ Abs(y) <= MaxCoord

\* What the button callbacks leave alone.
Idle == UNCHANGED <<w, h, pixels, panicked, start, ops>>

\* A click on each button, while the program runs.
ZoomIn == ~panicked /\ ZoomInHandler /\ InBounds' /\ Idle

ZoomOut == ~panicked /\ ZoomOutHandler /\ InBounds' /\ Idle

MoveUp == ~panicked /\ MoveUpHandler /\ InBounds' /\ Idle

NavigateBack == ~panicked /\ NavigateBackHandler /\ InBounds' /\ Idle

NavigateNext == ~panicked /\ NavigateNextHandler /\ InBounds' /\ Idle

MoveDown == ~panicked /\ MoveDownHandler /\ InBounds' /\ Idle

(* ------------------------------------------------------------------ draw *)

\* scale after lines 99-106: 1 without a canvas, int(c.Scale()) raised to 1.
Scale(c) == IF c = NoCanvas THEN 1 ELSE IF c < 1 THEN 1 ELSE c

\* The local tileSize of draw.
ScaledTileSize(c) == IF c = NoCanvas THEN tileSize ELSE tileSize * Scale(c)

\* The tile sizes draw works with, over the canvases.
TileSizes == {ScaledTileSize(c) : c \in Canvases}

\* midTileX, midTileY: where the centre tile is placed on one axis.
MidTile(size, T, z) ==
    GoDiv(size - T * 2, 2) + (IF z = 0 THEN GoDiv(T, 2) ELSE 0)

\* count := 1 << m.zoom
Count(z) == 2 ^ z

\* mx, my: m.x + int(float32(count)/2 - 0.5). float32 holds count/2 - 0.5
\* exactly up to 2^19, and the conversion truncates (count - 1) / 2.
CentreTile(c, count) == c + GoDiv(count - 1, 2)

\* firstTile with an integer division for math.Ceil.
FirstTile_Truncated(m, mid, T) == m - GoDiv(mid, T)

\* firstTileX, firstTileY
FirstTile(m, mid, T) == m - CeilDiv(mid, T)

\* The number of iterations of a loop "for t := first; (t-first)*T <= size+T; t++".
LoopSteps(size, T) == ((size + T) \div T) + 1

\* The test of line 129 with x > count for x >= count.
InGrid_OffByOne(tx, ty, count) == ~(tx < 0 \/ ty < 0 \/ tx > count \/ ty >= count)

\* The test of line 129, negated: the tile is not skipped.
InGrid(tx, ty, count) == ~(tx < 0 \/ ty < 0 \/ tx >= count \/ ty >= count)

\* pos with the constant tileSize for the scaled one.
TilePos_Unscaled(mid, t, m, T) == mid + (t - m) * tileSize

\* One coordinate of pos.
TilePos(mid, t, m, T) == mid + (t - m) * T

\* getTile(x, y, zoom, cl) returns an error: the tile source fails for this
\* tile under the network state net.
GetTileFails(tx, ty, z, net) == ((tx + ty) % 2) \in net

\* The body of the two loops of draw (x outside, y inside) from iteration i
\* on, of nx * ny. acc holds the tiles fetched, the fetch errors logged and
\* the tiles composited so far. draw.Copy into a nil *image.NRGBA
\* dereferences it, and the panic ends the call.
RECURSIVE RunLoop(_, _, _, _, _)
RunLoop(i, acc, dst, net, d) ==
    IF i >= d.nx * d.ny THEN acc
    ELSE
      LET tx == d.firstTileX + (i \div d.ny)
          ty == d.firstTileY + (i % d.ny)
      IN IF ~InGrid(tx, ty, d.count)
         THEN RunLoop(i + 1, acc, dst, net, d)
         ELSE
           LET tile == [x |-> tx, y |-> ty, zoom |-> d.zoom]
           IN IF GetTileFails(tx, ty, d.zoom, net)
              THEN RunLoop(i + 1,
                           [acc EXCEPT !.fetched = Append(@, tile),
                                       !.errors = Append(@, tile)],
                           dst, net, d)
              ELSE IF dst.addr = 0
              THEN [acc EXCEPT !.fetched = Append(@, tile), !.panicked = TRUE]
              ELSE
                LET put == [x |-> tx, y |-> ty,
                            px |-> TilePos(d.midTileX, tx, d.mx, d.tileSize),
                            py |-> TilePos(d.midTileY, ty, d.my, d.tileSize),
                            size |-> d.tileSize]
                IN RunLoop(i + 1,
                           [acc EXCEPT !.fetched = Append(@, tile),
                                       !.drawn = Append(@, put)],
                           dst, net, d)

\* The buffer draw works on: a new one when the size asked for differs from
\* the fields w, h.
Buffer(dw, dh) ==
    IF w # dw \/ h # dh THEN NewNRGBA(pixels, dw, dh) ELSE pixels

\* The locals of draw before its loops, for tile size T.
Locals(dw, dh, T) ==
    LET midTileX == MidTile(dw, T, zoom)
        midTileY == MidTile(dh, T, zoom)
        count == Count(zoom)
        mx == CentreTile(x, count)
        my == CentreTile(y, count)
    IN [tileSize |-> T, zoom |-> zoom, count |-> count,
        midTileX |-> midTileX, midTileY |-> midTileY, mx |-> mx, my |-> my,
        firstTileX |-> FirstTile(mx, midTileX, T),
        firstTileY |-> FirstTile(my, midTileY, T),
        nx |-> LoopSteps(dw, T), ny |-> LoopSteps(dh, T)]

\* m.draw(dw, dh) with tile size T and the tile server in state net.
DrawCall(dw, dh, T, net) ==
    LET dst == Buffer(dw, dh)
        acc0 == [fetched |-> <<>>, errors |-> <<>>, drawn |-> <<>>,
                 panicked |-> FALSE]
        acc == RunLoop(0, acc0, dst, net, Locals(dw, dh, T))
    IN /\ pixels' = dst
       /\ panicked' = acc.panicked
       /\ frame' = [valid |-> TRUE, w |-> dw, h |-> dh, tileSize |-> T,
                    fetched |-> acc.fetched, errors |-> acc.errors,
                    drawn |-> acc.drawn]
       /\ UNCHANGED <<zoom, x, y, w, h>>

\* The toolkit calls the raster's generator m.draw to paint the widget.
Draw ==
    /\ ~panicked
    /\ frame = NoFrame
    /\ \E size \in DrawSizes, T \in TileSizes, net \in Networks :
          DrawCall(size[1], size[2], T, net)
    /\ UNCHANGED <<start, ops>>

\* The toolkit paints the widget again, its size and canvas unchanged.
Redraw ==
    /\ ~panicked
    /\ frame # NoFrame
    /\ \E net \in Networks : DrawCall(frame.w, frame.h, frame.tileSize, net)
    /\ UNCHANGED <<start, ops>>

\* The window is resized or moved to another canvas: the frame is outdated.
Resize ==
    /\ ~panicked
    /\ frame # NoFrame
    /\ frame' = NoFrame
    /\ UNCHANGED <<zoom, x, y, w, h, pixels, panicked, start, ops>>

Next ==
    \/ ZoomIn
    \/ ZoomOut
    \/ MoveUp
    \/ NavigateBack
    \/ NavigateNext
    \/ MoveDown
    \/ Draw
    \/ Redraw
    \/ Resize

Spec == Init /\ [][Next]_vars

(* ------------------------------------------------- the zoom buttons alone *)

\* Any state the pan buttons lead to, followed by up to MaxZoomSteps clicks
\* on the zoom buttons; start is the state before the first click, ops the
\* buttons clicked since.
InitZoom ==
    /\ zoom \in 0..MaxZoom
    /\ x \in (-MaxStart)..MaxStart
    /\ y \in (-MaxStart)..MaxStart
    /\ w = 0
    /\ h = 0
    /\ pixels = NilPixels
    /\ frame = NoFrame
    /\ panicked = FALSE
    /\ start = [zoom |-> zoom, x |-> x, y |-> y]
    /\ ops = <<>>

ClickZoomIn ==
    /\ Len(ops) < MaxZoomSteps
    /\ ZoomInHandler
    /\ ops' = Append(ops, "in")
    /\ UNCHANGED <<w, h, pixels, panicked, start>>

ClickZoomOut ==
    /\ Len(ops) < MaxZoomSteps
    /\ ZoomOutHandler
    /\ ops' = Append(ops, "out")
    /\ UNCHANGED <<w, h, pixels, panicked, start>>

NextZoom == ClickZoomIn \/ ClickZoomOut

SpecZoom == InitZoom /\ [][NextZoom]_vars

(* ----------------------------------------------------------------- claims *)

\* The tiles of the latest frame as a set.
FetchedSet == {frame.fetched[i] : i \in 1..Len(frame.fetched)}

\* C1: every tile draw fetches or composites lies in the grid of the current
\* zoom, 0 <= x < 2^zoom and 0 <= y < 2^zoom, wherever the centre was panned.
C1_FetchedInGrid ==
    /\ \A t \in FetchedSet :
          /\ t.zoom = zoom
          /\ 0 <= t.x /\ t.x < 2 ^ zoom
          /\ 0 <= t.y /\ t.y < 2 ^ zoom
    /\ \A i \in 1..Len(frame.drawn) :
          /\ 0 <= frame.drawn[i].x /\ frame.drawn[i].x < 2 ^ zoom
          /\ 0 <= frame.drawn[i].y /\ frame.drawn[i].y < 2 ^ zoom

\* A frame drawn with the centre tile left of the grid: some candidates are
\* skipped and some are fetched.
C1_Witness ==
    /\ frame.valid
    /\ zoom = 1 /\ x = -1 /\ y = 1
    /\ frame.w = 701
    /\ Len(frame.fetched) > 0

\* C2: the zoom level stays in [0, 19] in every reachable state.
C2_ZoomClamped == 0 <= zoom /\ zoom <= 19

\* The maximum zoom is reached, and panned at.
C2_Witness == zoom = 19 /\ x = 1

\* C3 as stated: zoom-in then zoom-out from any state with zoom >= 1, the
\* maximum 19 included, returns to the same zoom and to a centre within one
\* tile of the start.
C3_Orig ==
    (ops = <<"in", "out">> /\ start.zoom >= 1) =>
        /\ zoom = start.zoom
        /\ Abs(x - start.x) <= 1
        /\ Abs(y - start.y) <= 1

\* C3 amended: zoom-in then zoom-out from any state with 1 <= zoom < 19
\* returns to the same zoom and to a centre within one tile of the start.
C3_RoundTrip ==
    (ops = <<"in", "out">> /\ start.zoom >= 1 /\ start.zoom < 19) =>
        /\ zoom = start.zoom
        /\ Abs(x - start.x) <= 1
        /\ Abs(y - start.y) <= 1

\* A round trip from an odd centre just below the maximum zoom.
C3_Witness ==
    /\ ops = <<"in", "out">>
    /\ start.zoom = 18 /\ start.x = 3 /\ start.y = -3
    /\ zoom = 18 /\ x = 3

\* The stored centre lies in the grid of the current zoom.
CentreInGrid ==
    /\ 0 <= x /\ x < 2 ^ zoom
    /\ 0 <= y /\ y < 2 ^ zoom

\* C4 as stated: in every reachable state the stored centre satisfies
\* 0 <= x < 2^zoom and 0 <= y < 2^zoom.
C4_Orig == CentreInGrid

\* C4 amended: the pan steps do not keep the centre in the grid, the zoom
\* steps do: a zoom-in or zoom-out from a state with 0 <= x, y < 2^zoom leads
\* to a state with 0 <= x, y < 2^zoom for the new zoom.
C4_ZoomKeepsCentreInGrid ==
    [][(zoom' # zoom /\ CentreInGrid) => CentreInGrid']_vars

\* A centre on the last tile of the grid at a zoom only zoom-in steps reach.
C4_Witness == zoom = 1 /\ x = 1 /\ y = 1

\* C5 as stated: whatever the fetches do, draw returns without a panic a
\* buffer of the size asked for, and every tile whose fetch succeeded is
\* composited.
C5_Orig ==
    frame.valid =>
        /\ ~panicked
        /\ pixels.addr # 0
        /\ pixels.w = frame.w /\ pixels.h = frame.h
        /\ \A t \in FetchedSet :
              (\A i \in 1..Len(frame.errors) : frame.errors[i] # t) =>
                  \E i \in 1..Len(frame.drawn) :
                      frame.drawn[i].x = t.x /\ frame.drawn[i].y = t.y

\* The world position, in half tiles, that draw shows at the centre
\* reference point: the right edge of the centre tile, and at zoom 0 the
\* middle of the single tile.
RefPoint(z, c) ==
    IF z = 0 THEN 2 * CentreTile(c, Count(z)) + 1
    ELSE 2 * (CentreTile(c, Count(z)) + 1)

\* C6: a zoom-in below the maximum zoom keeps the world position at the
\* centre reference point, as a fraction of the world width: the width in
\* half tiles doubles, and so does the position.
C6_ZoomInKeepsCentre ==
    (ops = <<"in">> /\ start.zoom < 19) =>
        /\ zoom = start.zoom + 1
        /\ RefPoint(zoom, x) = 2 * RefPoint(start.zoom, start.x)
        /\ RefPoint(zoom, y) = 2 * RefPoint(start.zoom, start.y)

\* A zoom-in from zoom 0 with the centre panned off the single tile.
C6_Witness ==
    /\ ops = <<"in">>
    /\ start.zoom = 0 /\ start.x = -3 /\ start.y = 2
    /\ zoom = 1

\* C7: the destination rectangles of two distinct tiles composited in one
\* frame are disjoint.
C7_Disjoint ==
    \A i, j \in 1..Len(frame.drawn) :
        LET a == frame.drawn[i]
            b == frame.drawn[j]
        IN (a.x # b.x \/ a.y # b.y) =>
              \/ a.px + a.size <= b.px
              \/ b.px + b.size <= a.px
              \/ a.py + a.size <= b.py
              \/ b.py + b.size <= a.py

\* A frame of several tiles scaled to 512 pixels.
C7_Witness ==
    /\ frame.valid
    /\ frame.tileSize = 512
    /\ Len(frame.drawn) >= 4

\* C8 as stated: at zoom 0 and centre (0, 0) draw fetches the tile (0, 0, 0)
\* once and nothing else, and places it centred, the margins equal up to one
\* pixel, for every size; at (128, 128) for 512 x 512 and scale 1.
C8_Orig ==
    (frame.valid /\ zoom = 0 /\ x = 0 /\ y = 0) =>
        /\ frame.fetched = <<[x |-> 0, y |-> 0, zoom |-> 0]>>
        /\ frame.errors = <<>> =>
              /\ Len(frame.drawn) = 1
              /\ LET d == frame.drawn[1]
                 IN /\ d.x = 0 /\ d.y = 0
                    /\ Abs(d.px - (frame.w - d.px - d.size)) <= 1
                    /\ Abs(d.py - (frame.h - d.py - d.size)) <= 1
                    /\ (frame.w = 512 /\ frame.h = 512 /\ d.size = 256) =>
                          (d.px = 128 /\ d.py = 128)

\* C9: every tile of the grid whose destination rectangle meets the viewport
\* [0, w) x [0, h) is fetched, and the first column and row of the loops are
\* placed at an offset in (-tileSize, 0].
C9_Coverage ==
    frame.valid =>
        LET T == frame.tileSize
            midX == MidTile(frame.w, T, zoom)
            midY == MidTile(frame.h, T, zoom)
            mx == CentreTile(x, Count(zoom))
            my == CentreTile(y, Count(zoom))
            rx == (frame.w \div T) + 3
            ry == (frame.h \div T) + 3
            p0x == TilePos(midX, FirstTile(mx, midX, T), mx, T)
            p0y == TilePos(midY, FirstTile(my, midY, T), my, T)
        IN /\ -T < p0x /\ p0x <= 0
           /\ -T < p0y /\ p0y <= 0
           /\ \A tx \in (mx - rx)..(mx + rx), ty \in (my - ry)..(my + ry) :
                 LET px == TilePos(midX, tx, mx, T)
                     py == TilePos(midY, ty, my, T)
                 IN ( /\ 0 <= tx /\ tx < 2 ^ zoom
                      /\ 0 <= ty /\ ty < 2 ^ zoom
                      /\ px < frame.w /\ px + T > 0
                      /\ py < frame.h /\ py + T > 0 )
                    => [x |-> tx, y |-> ty, zoom |-> zoom] \in FetchedSet

\* A frame narrower than two tiles, midTileX negative and odd before the
\* division, with several tiles in view.
C9_Witness ==
    /\ frame.valid
    /\ frame.w = 301 /\ frame.tileSize = 512
    /\ zoom = 2
    /\ Len(frame.fetched) >= 2

\* C10 as stated: of two consecutive draw calls with the same size, the
\* second works on the buffer of the first and allocates none.
C10_Orig ==
    [][(frame.valid /\ frame'.valid /\ frame'.w = frame.w /\ frame'.h = frame.h)
          => pixels' = pixels]_vars

====
